---- MODULE Spec2Model ----
(***************************************************************************)
(* Model of the continuous recommendation service                          *)
(* (src/execution-engine/apply_recommendations.py, config.py, init.py).    *)
(*                                                                         *)
(* One process with one thread of control runs the module top to bottom:   *)
(* schema guard, engine/recommendation set-up, then the trigger chosen by  *)
(* settings.trigger_method.  apply_recommendations is a straight-line      *)
(* sequence of SQL statements and engine calls; it is modelled as the      *)
(* statement list CycleProgram, executed one statement per step so that    *)
(* other database sessions (a reader of the result schema) and faults can  *)
(* interleave.  The database is modelled by its tables, the sequences of   *)
(* both schemas, the table locks, and the undo image of the open           *)
(* transaction.                                                            *)
(***************************************************************************)
EXTENDS Integers, Sequences, FiniteSets, TLC

VARIABLES
    mode,          \* settings.trigger_method
    schemaName,    \* get_config().omop.db_result_schema, a sequence of characters
    schemaExists,  \* whether result_schema is listed in information_schema.schemata
    schemaAtStart, \* history: schemaExists when the first process image started
    pc,            \* position of the process's single thread
    recommendations, \* the module's list of loaded recommendation handles (line 160)
    ip,            \* index of the next statement of CycleProgram while pc = "cycle"
    bootstraps,    \* history: executions of the bootstrap branch (lines 128-131)
    execs,         \* history: os.execv calls
    jobs,          \* number of jobs in the schedule module's default scheduler
    tbl,           \* tbl[schema][table]: the rows physically in each table
    seq,           \* seq[schema]: next values of the schema's two sequences
    tx,            \* the publisher connection's open transaction (undo image)
    xlocks,        \* tables on which the publisher holds ACCESS EXCLUSIVE
    rlocks,        \* result tables on which the reader holds ACCESS SHARE
    seen,          \* what the reader's statement returned, per table
    published,     \* history: result-area contents as of the last completed transfer
    outcome,       \* history: state of the cycle of the current request
    executed,      \* history: engine.execute calls made in the current cycle
    failedOp,      \* history: kind of the statement that raised in the current cycle
    active,        \* number of apply_recommendations activations not yet returned
    now,           \* the time pendulum.now() would return
    window,        \* start_datetime and end_datetime of the latest activation
    passed,        \* history: the windows passed to engine.execute in the current cycle
    budget,        \* trigger requests the clients will still send
    backlog,       \* connections waiting in the listening socket's queue
    responded      \* whether do_POST has written the response of the current request

vars == <<mode, schemaName, schemaExists, schemaAtStart, pc, recommendations, ip, bootstraps, execs, jobs, tbl, seq, tx,
          xlocks, rlocks, seen, published, outcome, executed, failedOp,
          active, now, window, passed, budget, backlog, responded>>

(***************************************************************************)
(* Bounds of the exploration.                                              *)
(***************************************************************************)
MaxRecs == 2        \* recommendations of the configured set
MaxIntervals == 1   \* result_interval rows one engine.execute call writes at most
MaxRequests == 2    \* trigger requests sent by clients
MaxExecs == 2       \* os.execv calls explored
MaxNameLen == 4     \* characters of a configured schema name
MaxTime == 1        \* latest reading of the clock

(***************************************************************************)
(* Names fixed by the source.                                              *)
(***************************************************************************)
TriggerMethod == {"timer", "http_request"}
temp_schema == <<"t", "e", "m", "p">>   \* line 150: temp_schema = "temp"
start_time == 0     \* settings.start_time, the origin of the model's time scale
result_schema == schemaName   \* line 73: the configured name itself
tables == <<"execution_run", "result_interval">>
Tables == {tables[i] : i \in 1..Len(tables)}
Schemas == {temp_schema, result_schema}
urls == [i \in 1..MaxRecs |-> i]   \* the configured recommendations, in catalog order

\* The recommendations of urls from position i on whose load does not fail
\* (F: positions of the recommendations whose load raises).
RECURSIVE LoadedFrom(_, _)
LoadedFrom(i, F) ==
    IF i > Len(urls) THEN <<>>
    ELSE (IF i \in F THEN <<>> ELSE <<urls[i]>>) \o LoadedFrom(i + 1, F)

\* Variant: a recommendation that fails to load is skipped.
load_recommendations_SkipFailed(F) == [ok |-> TRUE, list |-> LoadedFrom(1, F)]

\* init.py, lines 89-97 and 160-171: every recommendation is loaded inside one
\* list comprehension or loop without try/except, so the first load that raises
\* ends load_recommendations with that exception.
load_recommendations(F) ==
    IF \E i \in 1..Len(urls) : i \in F
    THEN [ok |-> FALSE, list |-> <<>>]
    ELSE [ok |-> TRUE, list |-> LoadedFrom(1, F)]

(***************************************************************************)
(* The schema name check, lines 76-78:                                     *)
(*   re.match(r"^[a-zA-Z_][a-zA-Z0-9_]*$", result_schema)                  *)
(* A name is the sequence of its characters.  The alphabet has the letters *)
(* of "temp" and one member of each other class the pattern tells apart:   *)
(* a digit, the underscore, the line feed, and a character outside every   *)
(* class.                                                                  *)
(***************************************************************************)
LineFeed == "\n"
Alphabet == {"t", "e", "m", "p", "7", "_", ";", LineFeed}
FirstClass == {"t", "e", "m", "p", "_"}        \* [a-zA-Z_]
WordClass == {"t", "e", "m", "p", "7", "_"}    \* [a-zA-Z0-9_]

Names(n) == UNION {[1..k -> Alphabet] : k \in 0..n}

\* "$" without re.MULTILINE matches at the end of the string and also just before
\* a line feed that is the last character of the string.
AtDollar(s, n) == n = Len(s) \/ (n = Len(s) - 1 /\ s[Len(s)] = LineFeed)

\* re.match(pattern, s) is not None: some prefix s[1..n] is a first-class character
\* followed by word-class characters, and "$" matches after it.
re_match(s) ==
    \E n \in 1..Len(s) :
        /\ s[1] \in FirstClass
        /\ \A i \in 2..n : s[i] \in WordClass
        /\ AtDollar(s, n)

\* The names a deployment of the full model is configured with: an ordinary
\* name, a name the check rejects, and the name of the staging schema.
ConfiguredNames == {<<"m">>, <<"7">>, temp_schema}

(***************************************************************************)
(* The database.  A row of execution_run is [run_id, rec]; a row of        *)
(* result_interval is [result_id, run_id] and references execution_run by  *)
(* run_id.  Both identifiers come from the sequences of the schema the     *)
(* engine writes to.                                                       *)
(***************************************************************************)
EmptyTables == [s \in Schemas |-> [t \in Tables |-> {}]]

InitialSeq == [s \in Schemas |-> [run |-> 1, interval |-> 1]]

\* What an earlier process life left behind: one published cycle, still in staging.
OldArea ==
    [t \in Tables |->
        IF t = "execution_run"
        THEN {[run_id |-> i, rec |-> urls[i]] : i \in 1..MaxRecs}
        ELSE {[result_id |-> 1, run_id |-> 1]}]

OldTables == [s \in Schemas |-> OldArea]

\* The engine of that life drew from the staging sequences; nothing ever draws
\* from the sequences of the result schema.
OldSeq ==
    [s \in Schemas |->
        IF s = temp_schema THEN [run |-> MaxRecs + 1, interval |-> 2]
        ELSE [run |-> 1, interval |-> 1]]

ResultArea(T) == T[result_schema]

StagingArea(T) == T[temp_schema]

\* Keys of the rows of table t in row set R.
Ids(t, R) ==
    IF t = "execution_run" THEN {r.run_id : r \in R} ELSE {r.result_id : r \in R}

\* TRUNCATE TABLE <t> CASCADE also empties the tables that reference t.
Cascade(t) ==
    IF t = "execution_run" THEN {"execution_run", "result_interval"} ELSE {t}

TruncateCascade(T, s, t) ==
    [T EXCEPT ![s] = [u \in Tables |-> IF u \in Cascade(t) THEN {} ELSE T[s][u]]]

\* Variant: the rows are moved, the staging table is left empty.
InsertSelect_Move(T, t) ==
    [T EXCEPT ![result_schema][t] = T[result_schema][t] \cup T[temp_schema][t],
              ![temp_schema][t] = {}]

\* INSERT INTO result.<t> SELECT * FROM temp.<t>: the rows are copied as they are,
\* identifiers included.
InsertSelect(T, t) ==
    [T EXCEPT ![result_schema][t] = T[result_schema][t] \cup T[temp_schema][t]]

\* The insert is refused (the statement raises) on a duplicate key or on an
\* interval row whose run is not in the target schema.
InsertAccepted(T, t) ==
    /\ Ids(t, T[result_schema][t]) \cap Ids(t, T[temp_schema][t]) = {}
    /\ t = "result_interval" =>
          \A r \in T[temp_schema][t] :
              r.run_id \in Ids("execution_run", T[result_schema]["execution_run"])

\* engine.execute(recommendation, ...) with the result schema redirected to
\* temp_schema: one execution_run row and k result_interval rows, identifiers
\* drawn from the staging sequences.
EngineWrites(T, q, rec, k) ==
    [T EXCEPT
        ![temp_schema]["execution_run"] =
            @ \cup {[run_id |-> q[temp_schema].run, rec |-> rec]},
        ![temp_schema]["result_interval"] =
            @ \cup {[result_id |-> q[temp_schema].interval + j - 1,
                      run_id |-> q[temp_schema].run] : j \in 1..k}]

EngineDraws(q, k) ==
    [q EXCEPT ![temp_schema] = [run |-> @.run + 1, interval |-> @.interval + k]]

\* Variant: both sequences of the schema are restarted.
RestartWith1_AllSequences(q, s) == [q EXCEPT ![s] = [run |-> 1, interval |-> 1]]

\* ALTER SEQUENCE <s>.result_interval_result_id_seq RESTART WITH 1
RestartWith1(q, s) == [q EXCEPT ![s].interval = 1]

NoTx == [active |-> FALSE]

\* "with omopdb.begin() as connection": leaving the block on an exception rolls
\* the transaction back to the image taken when it began.
RolledBack(x, T) == IF x.active THEN x.tbl ELSE T

RolledBackSeq(x, q) == IF x.active THEN x.seq ELSE q

(***************************************************************************)
(* apply_recommendations as a statement list.                              *)
(***************************************************************************)
Stmt(op, s, t, r) == [op |-> op, schema |-> s, table |-> t, rec |-> r]

\* Variant: staging is not emptied, only the sequence is restarted.
ClearStaging_NoTruncate ==
    <<Stmt("begin", "-", "-", 0),
      Stmt("restart", temp_schema, "result_interval", 0),
      Stmt("commit", "-", "-", 0)>>

\* lines 188-198
ClearStaging ==
    <<Stmt("begin", "-", "-", 0)>>
    \o [i \in 1..Len(tables) |-> Stmt("truncate", temp_schema, tables[i], 0)]
    \o <<Stmt("restart", temp_schema, "result_interval", 0),
         Stmt("commit", "-", "-", 0)>>

\* lines 204-207
RunEngine ==
    [i \in 1..Len(recommendations) |-> Stmt("execute", temp_schema, "-", recommendations[i])]

\* Variant: the tables are copied in the opposite order, intervals first.
Transfer_IntervalsFirst ==
    <<Stmt("begin", "-", "-", 0)>>
    \o [i \in 1..Len(tables) |-> Stmt("lock", result_schema, tables[i], 0)]
    \o [i \in 1..Len(tables) |-> Stmt("truncate", result_schema, tables[i], 0)]
    \o [i \in 1..Len(tables) |->
           Stmt("insert", result_schema, tables[Len(tables) + 1 - i], 0)]
    \o <<Stmt("commit", "-", "-", 0)>>

\* Variant: the locks are requested in the opposite order.
Transfer_LocksReversed ==
    <<Stmt("begin", "-", "-", 0)>>
    \o [i \in 1..Len(tables) |->
           Stmt("lock", result_schema, tables[Len(tables) + 1 - i], 0)]
    \o [i \in 1..Len(tables) |-> Stmt("truncate", result_schema, tables[i], 0)]
    \o [i \in 1..Len(tables) |-> Stmt("insert", result_schema, tables[i], 0)]
    \o <<Stmt("commit", "-", "-", 0)>>

\* lines 216-238
Transfer ==
    <<Stmt("begin", "-", "-", 0)>>
    \o [i \in 1..Len(tables) |-> Stmt("lock", result_schema, tables[i], 0)]
    \o [i \in 1..Len(tables) |-> Stmt("truncate", result_schema, tables[i], 0)]
    \o [i \in 1..Len(tables) |-> Stmt("insert", result_schema, tables[i], 0)]
    \o <<Stmt("commit", "-", "-", 0)>>

\* The tables after statements i.. of statement list prog ran on tables T without
\* interleaving; ok is FALSE when an insert was refused.
RECURSIVE Effect(_, _, _)
Effect(prog, i, T) ==
    IF i > Len(prog) THEN [ok |-> TRUE, tbl |-> T]
    ELSE IF prog[i].op = "truncate"
         THEN Effect(prog, i + 1, TruncateCascade(T, prog[i].schema, prog[i].table))
    ELSE IF prog[i].op = "insert"
         THEN IF InsertAccepted(T, prog[i].table)
              THEN Effect(prog, i + 1, InsertSelect(T, prog[i].table))
              ELSE [ok |-> FALSE, tbl |-> T]
    ELSE Effect(prog, i + 1, T)

\* One more execution of the transfer transaction on tables T: committed, or
\* rolled back to T when a statement raised.
Transferred(T) ==
    LET r == Effect(Transfer, 1, T) IN IF r.ok THEN r.tbl ELSE T

CycleProgram == ClearStaging \o RunEngine \o Transfer

Current == CycleProgram[ip]

AtStmt(op) == pc = "cycle" /\ ip \in 1..Len(CycleProgram) /\ Current.op = op

\* Variant: the loop over the recommendations logs a failure and continues.
Catches_Execute(st) == st.op = "execute"

\* Whether apply_recommendations catches an exception raised by statement st
\* (it has no try/except anywhere).
Catches(st) == FALSE

(***************************************************************************)
(* Initial state: the process image has just started; the database either  *)
(* lacks the result schema, or has it, empty or as an earlier process life *)
(* left it.                                                                *)
(***************************************************************************)
NoRead == [done |-> FALSE]

InitWith(names) ==
    /\ mode \in TriggerMethod
    /\ schemaName \in names
    /\ schemaExists \in BOOLEAN
    /\ schemaAtStart = schemaExists
    /\ \E old \in BOOLEAN :
          /\ old => schemaExists
          /\ tbl = IF old THEN OldTables ELSE EmptyTables
          /\ seq = IF old THEN OldSeq ELSE InitialSeq
    /\ pc = "validate"
    /\ recommendations = <<>>
    /\ ip = 0
    /\ bootstraps = 0
    /\ execs = 0
    /\ jobs = 0
    /\ tx = NoTx
    /\ xlocks = {}
    /\ rlocks = {}
    /\ seen = NoRead
    /\ published = ResultArea(tbl)
    /\ outcome = "none"
    /\ executed = <<>>
    /\ failedOp = "-"
    /\ active = 0
    /\ now = start_time
    /\ window = [start |-> start_time, end |-> now]
    /\ passed = {}
    /\ budget = MaxRequests
    /\ backlog = 0
    /\ responded = FALSE

Init == InitWith(ConfiguredNames)

\* Start of a process with any schema name of up to MaxNameLen characters.
NameInit == InitWith(Names(MaxNameLen))

dbVars == <<tbl, seq, tx, xlocks, published>>
readerVars == <<rlocks, seen>>
cycleVars == <<ip, outcome, executed, failedOp, active, window, passed>>
startVars == <<mode, schemaName, schemaExists, schemaAtStart, recommendations,
               bootstraps, execs, jobs>>
httpVars == <<budget, backlog, responded>>

(***************************************************************************)
(* Start-up: schema guard, set-up, trigger selection.                      *)
(***************************************************************************)
\* lines 76-78: the schema name check at module level, before anything touches
\* the database; ValueError ends the process
ValidateSchemaName ==
    /\ pc = "validate"
    /\ pc' = IF re_match(schemaName) THEN "guard" ELSE "config_error"
    /\ UNCHANGED <<startVars, dbVars, readerVars, now, cycleVars, httpVars>>

\* Variant: the check never finds the schema (it looks for another name).
schema_exists_Never == FALSE

\* lines 107-116: count(*) of the schemata named result_schema is > 0
schema_exists == schemaExists

\* ensure_database_exists, lines 84-125: the existence check and its branch
EnsureDatabaseExists ==
    /\ pc = "guard"
    /\ pc' = IF schema_exists THEN "setup" ELSE "bootstrap"
    /\ UNCHANGED <<startVars, dbVars, readerVars, now, cycleVars, httpVars>>

\* line 130: init_execution_engine builds the engine, which creates the result
\* schema and its tables; other sessions see them from here on
BootstrapEngine ==
    /\ pc = "bootstrap"
    /\ schemaExists' = TRUE
    /\ pc' = "bootstrap_load"
    /\ UNCHANGED <<mode, schemaName, schemaAtStart, recommendations, bootstraps, execs,
                   jobs, dbVars, readerVars, now, cycleVars, httpVars>>

\* line 131: load_recommendations(engine), result dropped; when a load raises the
\* process ends with the schema in place
Bootstrap ==
    /\ pc = "bootstrap_load"
    /\ \E F \in SUBSET (1..Len(urls)) :
          IF load_recommendations(F).ok
          THEN /\ bootstraps' = bootstraps + 1
               /\ pc' = "reexec"
          ELSE /\ bootstraps' = bootstraps
               /\ pc' = "crashed"
    /\ UNCHANGED <<mode, schemaName, schemaExists, schemaAtStart, recommendations, execs,
                   jobs, dbVars, readerVars, now, cycleVars, httpVars>>

\* line 141: os.execv replaces the process image; the module runs again from the top
ReExec ==
    /\ pc = "reexec"
    /\ execs < MaxExecs
    /\ execs' = execs + 1
    /\ pc' = "validate"
    /\ UNCHANGED <<mode, schemaName, schemaExists, schemaAtStart, recommendations,
                   bootstraps, jobs, dbVars,
                   readerVars, now, cycleVars, httpVars>>

\* lines 151-160: switch to temp_schema, build the engine, load the recommendations;
\* an exception of load_recommendations at module level ends the process
SetUp ==
    /\ pc = "setup"
    /\ \E F \in SUBSET (1..Len(urls)) :
          IF load_recommendations(F).ok
          THEN /\ recommendations' = load_recommendations(F).list
               /\ pc' = "trigger"
          ELSE /\ recommendations' = recommendations
               /\ pc' = "crashed"
    /\ UNCHANGED <<mode, schemaName, schemaExists, schemaAtStart, bootstraps, execs, jobs,
                   dbVars, readerVars, now, cycleVars, httpVars>>

\* init_execution_engine raises (line 130 or line 157) before it has created
\* anything
StartupFails ==
    /\ pc \in {"bootstrap", "setup"}
    /\ pc' = "crashed"
    /\ UNCHANGED <<startVars, dbVars, readerVars, now, cycleVars, httpVars>>

\* line 258: interval.in_seconds names the method pendulum.Duration.in_seconds
\* without calling it, so schedule.every receives a bound method
every_argument == "method"

\* Job._schedule_next_run builds datetime.timedelta(seconds=<interval>), which
\* raises TypeError unless the interval is a number
timedelta_accepts(x) == x = "number"

\* run_with_time_based_trigger, lines 253-265: the registration at line 258 raises
\* before the job is appended to the scheduler's jobs and before the forced first
\* run of line 261; the exception ends the process
RunWithTimeBasedTrigger ==
    /\ pc = "trigger"
    /\ mode = "timer"
    /\ ~timedelta_accepts(every_argument)
    /\ pc' = "timer_crashed"
    /\ UNCHANGED <<startVars, dbVars, readerVars, now, cycleVars, httpVars>>

\* run_with_http_trigger, lines 268-286: bind, listen, serve_forever
RunWithHttpTrigger ==
    /\ pc = "trigger"
    /\ mode = "http_request"
    /\ pc' = "serving"
    /\ UNCHANGED <<startVars, dbVars, readerVars, now, cycleVars, httpVars>>

(***************************************************************************)
(* Request mode.  HTTPServer handles one request at a time in the thread   *)
(* that called serve_forever; further connections wait in the backlog.     *)
(***************************************************************************)
Listening == mode = "http_request" /\ pc \in {"serving", "do_POST", "call", "cycle"}

\* a client opens a connection and sends POST
ClientPosts ==
    /\ Listening
    /\ budget > 0
    /\ budget' = budget - 1
    /\ backlog' = backlog + 1
    /\ UNCHANGED <<pc, responded, startVars, dbVars, readerVars, now, cycleVars>>

\* Variant: a threading server accepts connections while a handler runs.
ServerIdle_Threading == pc \in {"serving", "cycle"}

\* serve_forever accepts the next connection only between requests
ServerIdle == pc = "serving"

Accept ==
    /\ mode = "http_request"
    /\ ServerIdle
    /\ backlog > 0
    /\ backlog' = backlog - 1
    /\ responded' = FALSE
    /\ outcome' = "none"
    /\ executed' = <<>>
    /\ failedOp' = "-"
    /\ pc' = "do_POST"
    /\ passed' = {}
    /\ UNCHANGED <<ip, active, window, budget, startVars, dbVars, readerVars, now>>

\* TriggerHandler.do_POST, lines 277-281: status line, header, body are written
\* to the unbuffered wfile
SendResponse ==
    /\ pc = "do_POST"
    /\ responded' = TRUE
    /\ pc' = "call"
    /\ UNCHANGED <<budget, backlog, startVars, dbVars, readerVars, now, cycleVars>>

\* A write of lines 278-281 raises because the client has gone (connection reset,
\* broken pipe): do_POST ends before line 282, socketserver logs the exception
\* and serve_forever goes on; no cycle runs for this request
SendResponseFails ==
    /\ pc = "do_POST"
    /\ pc' = "serving"
    /\ UNCHANGED <<startVars, dbVars, readerVars, now, cycleVars, httpVars>>

(***************************************************************************)
(* apply_recommendations.                                                  *)
(***************************************************************************)
\* Variant: the end of the window is read from the clock at every engine.execute.
end_datetime_Resampled(w, clock) == clock

\* line 206: the end_datetime argument is the local assigned at line 175
end_datetime(w, clock) == w.end

\* lines 172-183: entry
ApplyRecommendations ==
    /\ pc = "call"
    /\ pc' = "cycle"
    /\ ip' = 1
    /\ active' = active + 1
    /\ window' = [start |-> start_time, end |-> now]
    /\ outcome' = "running"
    /\ UNCHANGED <<executed, failedOp, passed, startVars, dbVars, readerVars, now, httpVars>>

\* with omopdb.begin() as connection
TxBegin ==
    /\ AtStmt("begin")
    /\ tx' = [active |-> TRUE, tbl |-> tbl, seq |-> seq]
    /\ ip' = ip + 1
    /\ UNCHANGED <<pc, tbl, seq, xlocks, published, outcome, executed, failedOp, active, window, passed,
                   startVars, readerVars, now, httpVars>>

\* TRUNCATE TABLE <schema>.<table> CASCADE: takes ACCESS EXCLUSIVE on every table
\* it empties, so it waits while the reader holds one of them
TruncateTable ==
    /\ AtStmt("truncate")
    /\ Current.schema = result_schema => Cascade(Current.table) \cap rlocks = {}
    /\ tbl' = TruncateCascade(tbl, Current.schema, Current.table)
    /\ xlocks' = xlocks \cup {<<Current.schema, u>> : u \in Cascade(Current.table)}
    /\ ip' = ip + 1
    /\ UNCHANGED <<pc, seq, tx, published, outcome, executed, failedOp, active, window, passed,
                   startVars, readerVars, now, httpVars>>

RestartSequence ==
    /\ AtStmt("restart")
    /\ seq' = RestartWith1(seq, Current.schema)
    /\ ip' = ip + 1
    /\ UNCHANGED <<pc, tbl, tx, xlocks, published, outcome, executed, failedOp, active, window, passed,
                   startVars, readerVars, now, httpVars>>

\* leaving the with block normally commits; the commit that ends the program
\* publishes the result area
TxCommit ==
    /\ AtStmt("commit")
    /\ tx' = NoTx
    /\ xlocks' = {}
    /\ published' = IF ip = Len(CycleProgram) THEN ResultArea(tbl) ELSE published
    /\ ip' = ip + 1
    /\ UNCHANGED <<pc, tbl, seq, outcome, executed, failedOp, active, window, passed, startVars,
                   readerVars, now, httpVars>>

\* engine.execute(recommendation, start_datetime, end_datetime) returns
EngineExecute ==
    /\ AtStmt("execute")
    /\ \E k \in 0..MaxIntervals :
          /\ tbl' = EngineWrites(tbl, seq, Current.rec, k)
          /\ seq' = EngineDraws(seq, k)
    /\ executed' = Append(executed, Current.rec)
    /\ passed' = passed \cup {[start |-> window.start, end |-> end_datetime(window, now)]}
    /\ ip' = ip + 1
    /\ UNCHANGED <<pc, tx, xlocks, published, outcome, failedOp, active, window, startVars,
                   readerVars, now, httpVars>>

\* LOCK TABLE <schema>.<table> IN ACCESS EXCLUSIVE MODE: no NOWAIT, no timeout;
\* the statement waits while the reader holds the table
LockTable ==
    /\ AtStmt("lock")
    /\ Current.table \notin rlocks
    /\ xlocks' = xlocks \cup {<<Current.schema, Current.table>>}
    /\ ip' = ip + 1
    /\ UNCHANGED <<pc, tbl, seq, tx, published, outcome, executed, failedOp, active, window, passed,
                   startVars, readerVars, now, httpVars>>

InsertRows ==
    /\ AtStmt("insert")
    /\ InsertAccepted(tbl, Current.table)
    /\ tbl' = InsertSelect(tbl, Current.table)
    /\ ip' = ip + 1
    /\ UNCHANGED <<pc, seq, tx, xlocks, published, outcome, executed, failedOp, active, window, passed,
                   startVars, readerVars, now, httpVars>>

\* lines 245-250: log and return to do_POST, which returns to serve_forever
CycleReturns ==
    /\ pc = "cycle"
    /\ ip = Len(CycleProgram) + 1
    /\ outcome' = "done"
    /\ active' = active - 1
    /\ ip' = 0
    /\ pc' = "serving"
    /\ UNCHANGED <<executed, failedOp, window, passed, startVars, dbVars, readerVars, now, httpVars>>

\* Variant: an exception of a handler ends serve_forever.
handle_error_Propagates == "crashed"

\* lines 284-285: an exception that leaves do_POST is caught by the server loop
\* of HTTPServer, logged by its handle_error, the connection is closed and
\* serve_forever goes on with the next request
handle_error == "serving"

\* The current statement raises (connection lost, deadlock victim, constraint
\* violation, evaluator error).  A failing engine.execute may already have written
\* its execution_run row.  Nothing in apply_recommendations catches the exception:
\* the open transaction is rolled back and the exception leaves the function; in
\* request mode socketserver's handle_error logs it and serve_forever goes on.
Raise ==
    /\ pc = "cycle"
    /\ ip \in 1..Len(CycleProgram)
    /\ \E wrote \in BOOLEAN :
          /\ wrote => Current.op = "execute"
          /\ LET T == IF wrote THEN EngineWrites(tbl, seq, Current.rec, 0) ELSE tbl
                 q == IF wrote THEN EngineDraws(seq, 0) ELSE seq
             IN  IF Catches(Current)
                 THEN /\ tbl' = T
                      /\ seq' = q
                      /\ ip' = ip + 1
                      /\ UNCHANGED <<pc, tx, xlocks, outcome, active>>
                 ELSE /\ tbl' = RolledBack(tx, T)
                      /\ seq' = RolledBackSeq(tx, q)
                      /\ tx' = NoTx
                      /\ xlocks' = {}
                      /\ outcome' = "failed"
                      /\ active' = active - 1
                      /\ ip' = 0
                      /\ pc' = handle_error
    /\ failedOp' = Current.op
    /\ executed' = IF Current.op = "execute" THEN Append(executed, Current.rec)
                   ELSE executed
    /\ passed' = IF Current.op = "execute"
                 THEN passed \cup {[start |-> window.start,
                                    end |-> end_datetime(window, now)]}
                 ELSE passed
    /\ UNCHANGED <<published, window, startVars, readerVars, now, httpVars>>

(***************************************************************************)
(* Another database session reading the result schema.  A statement takes  *)
(* ACCESS SHARE on the tables it names and reads them; the locks are held  *)
(* until the session ends its transaction - which may be never.            *)
(***************************************************************************)
ReaderStatement ==
    /\ schemaExists
    /\ rlocks = {}
    /\ \E S \in (SUBSET Tables) \ {{}} :
          /\ \A t \in S : <<result_schema, t>> \notin xlocks
          /\ rlocks' = S
          /\ seen' = [done |-> TRUE, rows |-> [t \in S |-> tbl[result_schema][t]]]
    /\ UNCHANGED <<pc, now, startVars, dbVars, cycleVars, httpVars>>

ReaderEnd ==
    /\ rlocks # {}
    /\ rlocks' = {}
    /\ seen' = NoRead
    /\ UNCHANGED <<pc, now, startVars, dbVars, cycleVars, httpVars>>

\* Time passes.  The program reads the clock on entry to apply_recommendations
\* only, and what it read is used by the engine.execute calls, so the clock is
\* advanced at these points: any amount of time may have passed before each.
Tick ==
    /\ pc = "call" \/ AtStmt("execute")
    /\ now < MaxTime
    /\ now' = now + 1
    /\ UNCHANGED <<pc, startVars, dbVars, readerVars, cycleVars, httpVars>>

Startup ==
    \/ ValidateSchemaName
    \/ EnsureDatabaseExists
    \/ BootstrapEngine
    \/ Bootstrap
    \/ ReExec
    \/ SetUp
    \/ StartupFails
    \/ RunWithTimeBasedTrigger
    \/ RunWithHttpTrigger

Server ==
    \/ Accept
    \/ SendResponse
    \/ SendResponseFails

Cycle ==
    \/ ApplyRecommendations
    \/ TxBegin
    \/ TruncateTable
    \/ RestartSequence
    \/ TxCommit
    \/ EngineExecute
    \/ LockTable
    \/ InsertRows
    \/ CycleReturns

Reader ==
    \/ ReaderStatement
    \/ ReaderEnd

\* The steps of the process and of its clients.
PublisherNext ==
    \/ Startup
    \/ Server
    \/ Cycle
    \/ Raise
    \/ ClientPosts

\* The process and its clients with no other session on the database.  The
\* reader session changes rlocks and seen only and reads no variable of the
\* process but the tables; all it can do to the process is make a LOCK or a
\* TRUNCATE of the result schema wait.
PublisherSpec == Init /\ [][PublisherNext]_vars

Next ==
    \/ PublisherNext
    \/ Reader

\* The process, its clients and a reader session of the result schema.
Spec == Init /\ [][Next]_vars

\* The process runs whenever it can: a statement that is not blocked is executed,
\* a pending connection is accepted.  Nothing obliges a client to send a request,
\* a fault to happen, or the reader to end its transaction.
FairSpec == Spec /\ WF_vars(Startup \/ Server \/ Cycle)

\* A process in request mode started on an existing result schema with empty
\* tables, its clients, and a clock that advances.
ClockInit ==
    /\ Init
    /\ mode = "http_request"
    /\ schemaExists
    /\ re_match(schemaName)
    /\ tbl = EmptyTables

ClockNext ==
    \/ ValidateSchemaName
    \/ EnsureDatabaseExists
    \/ SetUp
    \/ StartupFails
    \/ RunWithHttpTrigger
    \/ Server
    \/ Cycle
    \/ Raise
    \/ ClientPosts
    \/ Tick

ClockSpec == ClockInit /\ [][ClockNext]_vars

\* The start-up of the process for every schema name of the bounded alphabet.
NameSpec == NameInit /\ [][Startup]_vars

(***************************************************************************)
(* Properties.                                                             *)
(***************************************************************************)
IntervalIds(area) == Ids("result_interval", area["result_interval"])

\* The staging phase is over: the next statement comes after the loop of lines 204-207.
PastStaging == pc = "cycle" /\ ip > Len(ClearStaging) + Len(RunEngine)

\* The next statement is one of the transfer transaction, its commit included.
InTransfer == PastStaging /\ ip <= Len(CycleProgram)

\* The publisher waits for a table lock that the reader session holds.
Blocked == AtStmt("lock") /\ Current.table \in rlocks

\* C1 (as claimed): every read of the result schema returns, for each table it names, the
\* complete contents published by the last completed transfer - never a table that
\* is truncated and not yet repopulated - and a statement that names both tables
\* gets both from the same publication.
C1_ReadsSeePublishedContents ==
    seen.done => \A t \in DOMAIN seen.rows : seen.rows[t] = published[t]

\* C2 (as claimed): when a cycle has failed, and whenever no transaction is open, both result
\* tables hold exactly what the last completed transfer published, which is what
\* they held before the failed cycle started.
C2_FailureLeavesResultArea ==
    (outcome = "failed" \/ ~tx.active) => ResultArea(tbl) = published

\* C3 (as claimed): every publication carries result_interval identifiers that are
\* all greater than every identifier of the publication it replaces.
C3_PublishedIdsStrictlyIncrease ==
    [][\A a \in IntervalIds(published), b \in IntervalIds(published') :
          published' # published => a < b]_vars

\* C4: at most one activation of apply_recommendations exists at any time.
C4_AtMostOneCycle == active <= 1

\* A trigger request arrived while a cycle is running.
C4_Witness_RequestDuringCycle == pc = "cycle" /\ active = 1 /\ backlog > 0

\* C5 (as claimed): the response of a request is written only when the cycle of
\* that request has completed.
C5_ResponseOnlyAfterCycle == responded => outcome = "done"

\* C6: a process started without the result schema bootstraps once and re-execs
\* once, and the re-executed image goes on without either; a process started with
\* the schema present does neither.
C6_BootstrapExactlyOnce ==
    /\ bootstraps <= 1
    /\ execs <= bootstraps
    /\ schemaAtStart => bootstraps = 0
    /\ pc \in {"bootstrap", "bootstrap_load", "reexec"} => execs = 0
    /\ (~schemaAtStart
          /\ pc \notin {"validate", "config_error", "guard", "bootstrap", "bootstrap_load",
                        "reexec", "crashed"})
          => (bootstraps = 1 /\ execs = 1)

\* The re-executed image of a process started without the schema serves requests.
C6_Witness_ServingAfterReExec ==
    ~schemaAtStart /\ execs = 1 /\ bootstraps = 1 /\ pc = "serving"

\* C7 (as claimed): when engine.execute raised for one handle, the cycle has
\* still executed every handle of the list.
C7_LaterHandlesStillExecuted ==
    (failedOp = "execute" /\ pc # "cycle") => Len(executed) = Len(recommendations)

\* C7 (amended): when engine.execute raises for one handle, the exception leaves
\* apply_recommendations: the cycle has ended as failed, no later handle is
\* executed and no transfer is attempted: nothing is published by this cycle.
C7_ExecuteFailureEndsCycle ==
    failedOp = "execute" =>
        /\ outcome = "failed"
        /\ pc # "cycle"
        /\ ~tx.active
        /\ xlocks = {}
        /\ Len(executed) <= Len(recommendations)

\* The failing handle was not the last one: the handles after it were not executed.
C7_Witness_HandlesSkipped ==
    failedOp = "execute" /\ outcome = "failed" /\ Len(executed) < Len(recommendations)

C9_LockWaitIsBounded ==
    []((Blocked /\ [](rlocks # {})) => <>(outcome = "failed"))

\* The run identifiers drawn from the staging sequence by the last n executions.
LastRunIds(n) == (seq[temp_schema].run - n)..(seq[temp_schema].run - 1)

\* C11 (as claimed): after a successful cycle the result area holds exactly the rows this
\* cycle's executions wrote to staging: one execution_run row per handle of the
\* list, carrying the run identifiers drawn in this cycle, and the interval rows
\* of these runs - nothing that an earlier cycle published or staged.
C11_ResultIsThisCyclesStaging ==
    outcome = "done" =>
        /\ ResultArea(tbl) = StagingArea(tbl)
        /\ Cardinality(ResultArea(tbl)["execution_run"]) = Len(recommendations)
        /\ {r.rec : r \in ResultArea(tbl)["execution_run"]}
              = {recommendations[i] : i \in 1..Len(recommendations)}
        /\ Ids("execution_run", ResultArea(tbl)["execution_run"])
              = LastRunIds(Len(recommendations))
        /\ \A r \in ResultArea(tbl)["result_interval"] :
              r.run_id \in LastRunIds(Len(recommendations))

\* C12: when a cycle has executed its transfer, executing the transfer transaction
\* once more, and again after that, on the staging contents it left leaves the
\* result tables, and staging, as the first execution left them.
C12_TransferIsIdempotent ==
    outcome = "done" =>
        LET again == Transferred(tbl)
        IN  /\ ResultArea(again) = ResultArea(tbl)
            /\ StagingArea(again) = StagingArea(tbl)
            /\ Transferred(again) = again

\* A cycle has published run and interval rows; its staging is still in place.
C12_Witness_TransferOfRows ==
    /\ outcome = "done"
    /\ StagingArea(tbl)["result_interval"] # {}
    /\ ResultArea(Transferred(tbl))["result_interval"] = StagingArea(tbl)["result_interval"]

\* Every result_interval row of the area references an execution_run row of it.
References(area) ==
    \A r \in area["result_interval"] :
        r.run_id \in Ids("execution_run", area["execution_run"])

\* C13: every committed state of the result schema has each result_interval row
\* referencing an execution_run row of the result schema, and the transfer reaches
\* each of its copies with the rows it references already in place: no copy is
\* refused, none leaves an interval without its run.
C13_IntervalsReferencePublishedRuns ==
    /\ References(published)
    /\ ~tx.active => References(ResultArea(tbl))
    /\ (InTransfer /\ AtStmt("insert")) => InsertAccepted(tbl, Current.table)
    /\ (InTransfer /\ AtStmt("commit")) => References(ResultArea(tbl))

\* The transfer is about to commit interval rows of the runs it copied before.
C13_Witness_IntervalsCopiedAfterRuns ==
    /\ InTransfer
    /\ AtStmt("commit")
    /\ ResultArea(tbl)["result_interval"] # {}
    /\ published["result_interval"] # ResultArea(tbl)["result_interval"]

\* The grammar of the claim: a letter or underscore, then letters, digits and
\* underscores only.
InGrammar(s) ==
    /\ Len(s) >= 1
    /\ s[1] \in FirstClass
    /\ \A i \in 2..Len(s) : s[i] \in WordClass

\* C14 (as claimed): a schema name outside the identifier grammar is rejected by
\* the check, before the database is touched: the process gets past the check
\* only with a name that consists of grammar characters.
C14_OnlyGrammarNamesPass ==
    pc \notin {"validate", "config_error"} => InGrammar(schemaName)

\* The publisher holds ACCESS EXCLUSIVE on the first n tables of the list, in the
\* result schema.
HoldsFirst(n) == \A i \in 1..n : <<result_schema, tables[i]>> \in xlocks

\* C15: the transfer holds ACCESS EXCLUSIVE on both result tables whenever it is
\* about to truncate, to insert or to commit; it takes the locks in the order of
\* the table list, execution_run before result_interval; and locks exist only
\* inside the transaction, so they are released by its commit or rollback only.
C15_LocksBeforeMutation ==
    /\ (InTransfer /\ (AtStmt("truncate") \/ AtStmt("insert") \/ AtStmt("commit")))
          => HoldsFirst(Len(tables))
    /\ \A i \in 1..Len(tables) :
          <<result_schema, tables[i]>> \in xlocks => HoldsFirst(i)
    /\ (InTransfer /\ AtStmt("lock")) =>
          \E i \in 1..Len(tables) : Current.table = tables[i] /\ HoldsFirst(i - 1)
    /\ xlocks # {} => tx.active

\* The transfer is about to request the second lock and holds the first; an
\* earlier cycle has published rows.
C15_Witness_SecondLockRequested ==
    /\ InTransfer
    /\ AtStmt("lock")
    /\ Current.table = tables[2]
    /\ HoldsFirst(1)
    /\ ~HoldsFirst(2)
    /\ published["execution_run"] # {}

\* C16 (as claimed): a step changes the result tables only if it belongs to the transfer
\* transaction (a statement of it, or its rollback), and the publication changes
\* only by the transfer's commit, once per cycle; no step at all - staging
\* truncation, sequence restart, engine execution, transfer - changes a sequence
\* of the result schema.
C16_OnlyTransferTouchesResult ==
    [][/\ ~InTransfer => ResultArea(tbl') = ResultArea(tbl)
       /\ published' # published => (InTransfer /\ AtStmt("commit") /\ pc' = "cycle")
       /\ seq'[result_schema] = seq[result_schema]]_vars

\* C17 (as claimed): every cycle executes each handle of the list exactly once:
\* a cycle that has ended has executed the whole configured list, in order.
C17_EveryCycleExecutesAll ==
    outcome \in {"done", "failed"} => executed = urls

\* C17 (amended): once loaded, the list is the complete configured set, in catalog
\* order; a cycle executes the handles in list order, each at most once, without
\* skipping any: what it has executed is a prefix of the list, and the whole list
\* when it reaches the transfer or succeeds.
C17_CompleteListExecutedInOrder ==
    /\ pc \notin {"validate", "config_error", "guard", "bootstrap", "bootstrap_load",
                  "reexec", "setup",
                  "crashed"} => recommendations = urls
    /\ recommendations \in {<<>>, urls}
    /\ Len(executed) <= Len(recommendations)
    /\ executed = SubSeq(recommendations, 1, Len(executed))
    /\ (PastStaging \/ outcome = "done") => executed = urls

\* A cycle with the complete list failed after its first and before its last handle.
C17_Witness_PrefixExecuted ==
    /\ outcome = "failed"
    /\ recommendations = urls
    /\ executed # <<>>
    /\ executed # urls

C19_TimerFirstCycleRuns ==
    (mode = "timer" /\ pc \notin {"validate", "config_error", "guard", "bootstrap",
                                  "bootstrap_load",
                                  "reexec", "setup", "trigger", "crashed"})
        => (outcome # "none" /\ pc # "timer_crashed")

\* The rows of the area were all written by engine.execute calls of the current
\* cycle: no more runs than calls made, carrying the run identifiers drawn last,
\* and intervals of these runs only.
WrittenByThisCycle(area) ==
    LET runs == area["execution_run"]
    IN  /\ Cardinality(runs) <= Len(executed)
        /\ Ids("execution_run", runs) = LastRunIds(Cardinality(runs))
        /\ \A r \in area["result_interval"] : r.run_id \in LastRunIds(Cardinality(runs))

\* C20: once a cycle has cleared staging, staging holds rows of this cycle only,
\* whatever an earlier cycle - failed or not - left there; so what a successful
\* cycle publishes contains no row of an earlier cycle.
C20_NoStaleStagingPublished ==
    /\ (pc = "cycle" /\ ip = Len(ClearStaging) + 1) =>
          StagingArea(tbl) = [t \in Tables |-> {}]
    /\ (pc = "cycle" /\ ip > Len(ClearStaging)) => WrittenByThisCycle(StagingArea(tbl))
    /\ outcome = "done" => (WrittenByThisCycle(published) /\ published = ResultArea(tbl))

\* A cycle succeeded after a cycle that had failed with rows in staging: the run
\* identifiers it published are offset by those the failed cycle drew.
C20_Witness_PublishedAfterFailedCycle ==
    /\ outcome = "done"
    /\ \E r \in published["execution_run"] :
          r.rec = urls[1] /\ (r.run_id - 1) % Len(urls) # 0

RunIds(area) == Ids("execution_run", area["execution_run"])

\* C21: the staging execution_run sequence never goes back - the only sequence
\* value that ever decreases is that of the staging result_interval sequence, by
\* the restart statement of the cycle - so every published run identifier is below
\* the next value of the sequence, and each publication carries run identifiers
\* that are all greater than every run identifier of the publication it replaces.
C21_PublishedRunIdsIncrease ==
    [][/\ seq'[temp_schema].run >= seq[temp_schema].run
       /\ seq'[temp_schema].interval < seq[temp_schema].interval => AtStmt("restart")
       /\ \A a \in RunIds(published) : a < seq[temp_schema].run
       /\ \A a \in RunIds(published), b \in RunIds(published') :
             published' # published => a < b]_vars

\* A cycle has published runs that replaced those of an earlier publication, with
\* the interval sequence back at its restart value.
C21_Witness_LaterRunsPublished ==
    /\ outcome = "done"
    /\ RunIds(published) # {}
    /\ \A a \in RunIds(published) : a > Len(urls)
    /\ seq[temp_schema].interval = 1

====
